---- MODULE Spec2Model ----
(***************************************************************************)
(* Model of src/create_icon.py: the icon renderer                          *)
(* (create_house_with_sound_icon), the ICO exporter (create_ico) and the   *)
(* script's top level (__main__ with its import guard).                    *)
(*                                                                         *)
(* Pillow is the program's environment.  Its calls are modelled by their   *)
(* documented behaviour:                                                   *)
(*   - ImageDraw truncates every float coordinate to a pixel ((int)x) and  *)
(*     each draw replaces the pixels it covers (no blending);              *)
(*   - rectangle() fills x0..x1 by y0..y1 inclusive and then strokes an    *)
(*     outline of the given width inside that box when the outline ink     *)
(*     differs from the fill ink;                                          *)
(*   - Image.save(format='ICO', sizes=..., append_images=...) ignores      *)
(*     every size bigger than the image save() is called on, or bigger     *)
(*     than 256, and takes the frame of a kept size from the images        *)
(*     provided.                                                           *)
(***************************************************************************)
EXTENDS Integers, Sequences, FiniteSets, TLC

(* ------------------------------ bounds --------------------------------- *)

\* Largest size given to the renderer when it is checked as a pure function.
MaxSize == 64

\* Longest size list given to create_ico when it is called directly.
MaxLen == 3

(* ------------------------- program constants --------------------------- *)

\* scale = size / 24
DesignUnits == 24

\* if size >= 32: the window is drawn
WindowMinSize == 32

\* create_house_with_sound_icon(48) for the PNG
PngSize == 48

DefaultSizes == <<16, 24, 32, 48, 256>>

Transparent == <<255, 255, 255, 0>>

color == <<40, 40, 40, 255>>

WindowFill == <<200, 200, 200, 255>>

NoInk == <<>>

Max(a, b) == IF a >= b THEN a ELSE b

SetMax(S) == CHOOSE m \in S : \A n \in S : n <= m

SetMin(S) == CHOOSE m \in S : \A n \in S : m <= n

(* ------------------------------ renderer ------------------------------- *)

\* The pixel a coordinate c * scale lands on, scale = size / 24, for a design
\* coordinate c given in half units (c2 = 2c, so that 0.5 and 7.5 are
\* integers): the float product truncated.  The float product and the exact
\* quotient truncate alike for every size up to 20000.
Px(c2, size) == (c2 * size) \div (2 * DesignUnits)

\* Variant of LineWidth: scale * 0.8 rounded to the nearest instead of truncated.
LineWidthRounded(size) == Max(1, (2 * size * 8 + DesignUnits * 10) \div (2 * DesignUnits * 10))

\* line_width = max(1, int(scale * 0.8)), scale = size / 24.
LineWidth(size) == Max(1, (size * 8) \div (DesignUnits * 10))

\* width = max(1, line_width // 2) of the window's outline.
WindowLineWidth(size) == Max(1, LineWidth(size) \div 2)

\* The window's corners are sums of floats (body_x1 + window_margin, then
\* + window_size).  Where the exact sum is a whole number the float sum may
\* fall just below it and truncate to the pixel before (size 32:
\* 11.999999999999998); elsewhere it truncates like the exact value.
\* WindowCoords names the corners and their exact value in 24ths of size.
WindowCoords == [wx1 |-> 7 + 2, wy1 |-> 12 + 2, wx2 |-> 7 + 2 + 3, wy2 |-> 12 + 2 + 3]

\* The sets of corners whose float sum may fall below its exact whole value.
FloatLow(size) ==
    IF size >= WindowMinSize
    THEN SUBSET {n \in DOMAIN WindowCoords : (WindowCoords[n] * size) % DesignUnits = 0}
    ELSE {{}}

WinPx(n, size, low) ==
    (WindowCoords[n] * size) \div DesignUnits - (IF n \in low THEN 1 ELSE 0)

Op(kind, xy, fill, outline, width) ==
    [kind |-> kind, xy |-> xy, fill |-> fill, outline |-> outline, width |-> width]

\* draw.arc([0.5 * scale, 1 * scale, 7.5 * scale, 7.5 * scale], -10, 100, ...)
Wave1(size) ==
    Op("arc", <<Px(1, size), Px(2, size), Px(15, size), Px(15, size)>>,
       NoInk, color, LineWidth(size))

\* draw.arc([2 * scale, 2.5 * scale, 7 * scale, 7.5 * scale], -10, 100, ...)
Wave2(size) ==
    Op("arc", <<Px(4, size), Px(5, size), Px(14, size), Px(15, size)>>,
       NoInk, color, LineWidth(size))

\* draw.arc([4 * scale, 4.5 * scale, 7 * scale, 7.5 * scale], -10, 100, ...)
Wave3(size) ==
    Op("arc", <<Px(8, size), Px(9, size), Px(14, size), Px(15, size)>>,
       NoInk, color, LineWidth(size))

\* draw.polygon(roof_points, fill=color, outline=color)
Roof(size) ==
    Op("polygon", <<Px(18, size), Px(4, size), Px(38, size), Px(24, size),
                    Px(14, size), Px(24, size)>>, color, color, 1)

\* Variant of BodyXY: body_y2 = 25 * scale, below the canvas.
BodyXYTooTall(size) == <<Px(14, size), Px(24, size), Px(38, size), Px(50, size)>>

\* The body's box [body_x1, body_y1, body_x2, body_y2].
BodyXY(size) == <<Px(14, size), Px(24, size), Px(38, size), Px(44, size)>>

\* draw.rectangle([body_x1, body_y1, body_x2, body_y2], fill=color, outline=color)
Body(size) == Op("rectangle", BodyXY(size), color, color, 1)

\* draw.rectangle([window_x1, window_y1, window_x2, window_y2],
\*                fill=(200, 200, 200, 255), outline=color, width=...)
Window(size, low) ==
    Op("rectangle",
       <<WinPx("wx1", size, low), WinPx("wy1", size, low),
         WinPx("wx2", size, low), WinPx("wy2", size, low)>>,
       WindowFill, color, WindowLineWidth(size))

\* Variant of DrawCalls: the window drawn before the body.
DrawCallsWindowFirst(size, low) ==
    <<Wave1(size), Wave2(size), Wave3(size), Roof(size)>>
    \o (IF size >= WindowMinSize THEN <<Window(size, low)>> ELSE <<>>)
    \o <<Body(size)>>

\* Variant of DrawCalls: the window drawn whatever the size.
DrawCallsAlwaysWindow(size, low) ==
    <<Wave1(size), Wave2(size), Wave3(size), Roof(size), Body(size), Window(size, low)>>

\* The draw calls of one render, in the order the code makes them.
DrawCalls(size, low) ==
    <<Wave1(size), Wave2(size), Wave3(size), Roof(size), Body(size)>>
    \o (IF size >= WindowMinSize THEN <<Window(size, low)>> ELSE <<>>)

\* img = Image.new('RGBA', (size, size), (255, 255, 255, 0))
NewImage(size) == [width |-> size, height |-> size, ops |-> <<>>]

\* The image create_house_with_sound_icon(size) returns.
Render(size, low) == [NewImage(size) EXCEPT !.ops = DrawCalls(size, low)]

(* ---------------------- what a draw call covers ------------------------ *)

InBox(xy, x, y) == xy[1] <= x /\ x <= xy[3] /\ xy[2] <= y /\ y <= xy[4]

\* An arc from -10 to 100 degrees (clockwise from 3 o'clock) stroked width
\* pixels inward from the ellipse inscribed in xy.  The sector's two rays are
\* taken as (17, -3) and (-3, 17): tan(10 degrees) is about 3/17.
ArcCovers(op, x, y) ==
    LET xy == op.xy
        a  == xy[3] - xy[1]
        b  == xy[4] - xy[2]
        dx == 2 * x - (xy[1] + xy[3])
        dy == 2 * y - (xy[2] + xy[4])
        ai == a - 2 * op.width
        bi == b - 2 * op.width
    IN  /\ InBox(xy, x, y)
        /\ dx * dx * b * b + dy * dy * a * a <= a * a * b * b
        /\ \/ ai <= 0
           \/ bi <= 0
           \/ dx * dx * bi * bi + dy * dy * ai * ai >= ai * ai * bi * bi
        /\ 17 * dy + 3 * dx >= 0
        /\ 17 * dx + 3 * dy >= 0

Edge(ax, ay, bx, by, x, y) == (bx - ax) * (y - ay) - (by - ay) * (x - ax)

\* A filled and outlined triangle: the points on or inside its three edges.
PolygonCovers(op, x, y) ==
    LET p  == op.xy
        e1 == Edge(p[1], p[2], p[3], p[4], x, y)
        e2 == Edge(p[3], p[4], p[5], p[6], x, y)
        e3 == Edge(p[5], p[6], p[1], p[2], x, y)
    IN  \/ (e1 >= 0 /\ e2 >= 0 /\ e3 >= 0)
        \/ (e1 <= 0 /\ e2 <= 0 /\ e3 <= 0)

Covers(op, x, y) ==
    CASE op.kind = "arc" -> ArcCovers(op, x, y)
      [] op.kind = "polygon" -> PolygonCovers(op, x, y)
      [] op.kind = "rectangle" -> InBox(op.xy, x, y)

\* Whether (x, y) is on the outline a rectangle call strokes.
OnOutline(op, x, y) ==
    \/ x < op.xy[1] + op.width
    \/ x > op.xy[3] - op.width
    \/ y < op.xy[2] + op.width
    \/ y > op.xy[4] - op.width

\* The colour a draw call leaves on a pixel it covers.
InkAt(op, x, y) ==
    IF op.kind = "rectangle" /\ ~OnOutline(op, x, y) THEN op.fill ELSE op.outline

\* The colour of pixel (x, y) of an image: that of the last draw call that
\* covers it, or the background Image.new gave it.
GetPixel(img, x, y) ==
    LET hits == {i \in DOMAIN img.ops : Covers(img.ops[i], x, y)}
    IN  IF hits = {} THEN Transparent ELSE InkAt(img.ops[SetMax(hits)], x, y)

Pixels(img) == (0 .. img.width - 1) \X (0 .. img.height - 1)

(* ----------------------------- the exporter ---------------------------- *)

png_file == "src/app.png"

output_file == "src/app.ico"

NoImage == [width |-> 0, height |-> 0, ops |-> <<>>]

\* A file on disk: kind is "none" (no such file), "stale" (a file from
\* before the run), "partial" (a file a failed write left truncated), "PNG"
\* or "ICO" (a file this run wrote whole), frames the images encoded in it.
File(kind, frames) == [kind |-> kind, frames |-> frames]

\* What a write that fails may leave of the file at its path: the file as it
\* was (the failure came before the file was opened), or the file truncated.
\* Image.save removes the file again when that call created it.
AfterFailedWrite(f) ==
    {f, IF f.kind = "none" THEN f ELSE File("partial", <<>>)}

\* One line of console output: its text and the numbers formatted into it.
Line(text, nums) == [text |-> text, nums |-> nums]

\* One call into the drawing library.
Call(op, size, images, declared) ==
    [op |-> op, size |-> size, images |-> images, declared |-> declared]

\* Variant of DeclaredSizes: every entry the size of the first image.
DeclaredSizesOfFirst(images) == [i \in DOMAIN images |-> <<images[1].width, images[1].height>>]

\* sizes=[(img.width, img.height) for img in images_data]
DeclaredSizes(images) == [i \in DOMAIN images |-> <<images[i].width, images[i].height>>]

RECURSIVE SortedSeq(_)
\* The numbers of a set, ascending.
SortedSeq(S) == IF S = {} THEN <<>> ELSE <<SetMin(S)>> \o SortedSeq(S \ {SetMin(S)})

\* The frames images_data[0].save(format='ICO', append_images=images_data[1:],
\* sizes=declared) writes: of the declared sizes, those no bigger than the
\* image save is called on (images[1]) and no bigger than 256, ascending,
\* each frame the first image provided that has that size.
IcoFrames(images, declared) ==
    LET base  == images[1]
        kept  == {declared[i][1] : i \in {j \in DOMAIN declared :
                      /\ declared[j][1] <= base.width
                      /\ declared[j][2] <= base.height
                      /\ declared[j][1] <= 256
                      /\ declared[j][2] <= 256}}
        order == SortedSeq(kept)
    IN  [k \in DOMAIN order |->
            images[SetMin({i \in DOMAIN images : images[i].width = order[k]})]]

(* ------------------------------- state --------------------------------- *)

VARIABLES
    low,          \* per size rendered, the window corners whose float sum falls low
    rsize,        \* the renderer checked alone: its argument size
    img,          \* ... the image being drawn
    returned,     \* ... whether create_house_with_sound_icon has returned img
    pc,           \* where the script (or a direct call of create_ico) stands
    caller,       \* "main": create_ico is called by __main__; "direct": alone
    sizes,        \* create_ico's argument sizes
    idx,          \* create_ico's position in sizes (1-based)
    images_data,  \* create_ico's list of rendered images
    png_icon,     \* __main__'s png_icon
    disk,         \* the files at png_file and output_file
    out,          \* the console output, line by line
    calls,        \* the calls made into the renderer and the image writer
    exc,          \* the step that raised, "none" while nothing has
    exit_status   \* the process's exit status, -1 while it runs

rvars == <<rsize, img, returned>>

pvars == <<pc, caller, sizes, idx, images_data, png_icon, disk, out, calls, exc, exit_status>>

vars == <<low, rsize, img, returned, pc, caller, sizes, idx, images_data, png_icon,
          disk, out, calls, exc, exit_status>>

RECURSIVE LowChoices(_)
\* Every assignment, to each size of S, of the corners that fall low for it.
LowChoices(S) ==
    IF S = {}
    THEN {<<>>}
    ELSE LET s == CHOOSE x \in S : TRUE
         IN  {[x \in S |-> IF x = s THEN c ELSE f[x]] :
                  c \in FloatLow(s), f \in LowChoices(S \ {s})}

Range(seq) == {seq[i] : i \in DOMAIN seq}

ProgramIdle ==
    /\ pc = "idle"
    /\ caller = "none"
    /\ sizes = <<>>
    /\ idx = 0
    /\ images_data = <<>>
    /\ png_icon = NoImage
    /\ disk = [p \in {png_file, output_file} |-> File("none", <<>>)]
    /\ out = <<>>
    /\ calls = <<>>
    /\ exc = "none"
    /\ exit_status = -1

RendererIdle ==
    /\ rsize = 0
    /\ img = NoImage
    /\ returned = FALSE

(* ----------------------- the renderer, step by step -------------------- *)

\* The sizes the renderer is checked on: every size up to the bound, and the
\* sizes the program itself renders.
RenderSizes == (1 .. MaxSize) \cup Range(DefaultSizes) \cup {PngSize}

RenderInit ==
    /\ rsize \in RenderSizes
    /\ low \in LowChoices({rsize})
    /\ img = NewImage(rsize)
    /\ returned = FALSE
    /\ ProgramIdle

\* The next draw call of create_house_with_sound_icon(rsize).
Draw ==
    /\ ~returned
    /\ Len(img.ops) < Len(DrawCalls(rsize, low[rsize]))
    /\ img' = [img EXCEPT !.ops = Append(@, DrawCalls(rsize, low[rsize])[Len(img.ops) + 1])]
    /\ UNCHANGED <<low, rsize, returned, pvars>>

\* return img
Return ==
    /\ ~returned
    /\ Len(img.ops) = Len(DrawCalls(rsize, low[rsize]))
    /\ returned' = TRUE
    /\ UNCHANGED <<low, rsize, img, pvars>>

RenderNext == Draw \/ Return

SpecRender == RenderInit /\ [][RenderNext]_vars

(* ------------------------------ create_ico ----------------------------- *)

\* Variant of RaiseTo: __main__ carries on to its report after an exception.
RaiseToSwallowed(who) == IF who = "main" THEN "report" ELSE "raised"

\* An exception leaves create_ico: to __main__'s except clause, or to the
\* direct caller.
RaiseTo(who) == IF who = "main" THEN "except" ELSE "raised"

\* create_ico is entered: print("Generating icon at multiple resolutions..."),
\* images_data = [].
IcoBegin ==
    /\ pc = "create_ico"
    /\ out' = Append(out, Line("Generating icon at multiple resolutions...", <<>>))
    /\ images_data' = <<>>
    /\ idx' = 1
    /\ pc' = "ico_loop"
    /\ UNCHANGED <<low, rvars, caller, sizes, png_icon, disk, calls, exc, exit_status>>

\* One turn of "for size in sizes": the progress line, the render, the append.
IcoRenderFrame ==
    /\ pc = "ico_loop"
    /\ idx <= Len(sizes)
    /\ out' = Append(out, Line("  Creating {size}x{size} icon...", <<sizes[idx], sizes[idx]>>))
    /\ calls' = Append(calls, Call("render", sizes[idx], <<>>, <<>>))
    /\ images_data' = Append(images_data, Render(sizes[idx], low[sizes[idx]]))
    /\ idx' = idx + 1
    /\ UNCHANGED <<low, rvars, pc, caller, sizes, png_icon, disk, exc, exit_status>>

\* One turn of the loop in which the renderer raises.
IcoRenderFrameFails ==
    /\ pc = "ico_loop"
    /\ idx <= Len(sizes)
    /\ out' = Append(out, Line("  Creating {size}x{size} icon...", <<sizes[idx], sizes[idx]>>))
    /\ calls' = Append(calls, Call("render", sizes[idx], <<>>, <<>>))
    /\ exc' = "render_frame"
    /\ pc' = RaiseTo(caller)
    /\ UNCHANGED <<low, rvars, caller, sizes, idx, images_data, png_icon, disk, exit_status>>

\* Where create_ico's return leads.
ReturnTo(who) == IF who = "main" THEN "report" ELSE "returned"

\* After the loop: the "Saving" line, images_data[0].save(...) and the three
\* summary lines.  images_data[0] raises IndexError when sizes was empty.
IcoSave ==
    /\ pc = "ico_loop"
    /\ idx > Len(sizes)
    /\ IF images_data = <<>>
       THEN /\ out' = Append(out, Line("Saving ICO file to src/app.ico...", <<>>))
            /\ exc' = "index_error"
            /\ pc' = RaiseTo(caller)
            /\ UNCHANGED <<calls, disk>>
       ELSE /\ calls' = Append(calls, Call("save_ico", 0, images_data, DeclaredSizes(images_data)))
            /\ disk' = [disk EXCEPT ![output_file] =
                            File("ICO", IcoFrames(images_data, DeclaredSizes(images_data)))]
            /\ out' = out \o <<Line("Saving ICO file to src/app.ico...", <<>>),
                               Line("Successfully created src/app.ico", <<>>),
                               Line("Number of sizes: {len(sizes)}", <<Len(sizes)>>),
                               Line("Sizes included: {sizes}", sizes)>>
            /\ pc' = ReturnTo(caller)
            /\ UNCHANGED exc
    /\ UNCHANGED <<low, rvars, caller, sizes, idx, images_data, png_icon, exit_status>>

\* After the loop, with a save that raises (encoding or the file system).
IcoSaveFails ==
    /\ pc = "ico_loop"
    /\ idx > Len(sizes)
    /\ images_data # <<>>
    /\ calls' = Append(calls, Call("save_ico", 0, images_data, DeclaredSizes(images_data)))
    /\ \E f \in AfterFailedWrite(disk[output_file]) :
           disk' = [disk EXCEPT ![output_file] = f]
    /\ out' = Append(out, Line("Saving ICO file to src/app.ico...", <<>>))
    /\ exc' = "save_ico"
    /\ pc' = RaiseTo(caller)
    /\ UNCHANGED <<low, rvars, caller, sizes, idx, images_data, png_icon, exit_status>>

\* The lists create_ico is called with when it is checked alone.
SizeChoices == {16, 32, 300}

RECURSIVE SeqsUpTo(_, _)
SeqsUpTo(S, n) ==
    IF n = 0 THEN {<<>>}
    ELSE LET shorter == SeqsUpTo(S, n - 1)
         IN  shorter \cup {Append(q, x) : q \in shorter, x \in S}

IcoInit ==
    /\ RendererIdle
    /\ low \in LowChoices(SizeChoices)
    /\ pc = "create_ico"
    /\ caller = "direct"
    /\ sizes \in SeqsUpTo(SizeChoices, MaxLen)
    /\ idx = 0
    /\ images_data = <<>>
    /\ png_icon = NoImage
    /\ disk \in [{png_file, output_file} -> {File("none", <<>>), File("stale", <<>>)}]
    /\ out = <<>>
    /\ calls = <<>>
    /\ exc = "none"
    /\ exit_status = -1

IcoNext == IcoBegin \/ IcoRenderFrame \/ IcoRenderFrameFails \/ IcoSave \/ IcoSaveFails

SpecIco == IcoInit /\ [][IcoNext]_vars

(* ------------------------------- __main__ ------------------------------ *)

\* from PIL import Image, ImageDraw
ImportOk ==
    /\ pc = "import"
    /\ pc' = "main"
    /\ UNCHANGED <<low, rvars, caller, sizes, idx, images_data, png_icon, disk, out, calls,
                   exc, exit_status>>

\* except ImportError: two lines and sys.exit(1)
ImportFails ==
    /\ pc = "import"
    /\ exc' = "import"
    /\ out' = out \o <<Line("Error: Pillow not installed.", <<>>),
                       Line("Please run: pip install pillow", <<>>)>>
    /\ exit_status' = 1
    /\ pc' = "exit"
    /\ UNCHANGED <<low, rvars, caller, sizes, idx, images_data, png_icon, disk, calls>>

\* Variant of MainRenderPng: create_ico is called before the PNG is saved.
MainRenderPngSkipSave ==
    /\ pc = "main"
    /\ out' = Append(out, Line("Creating PNG icon...", <<>>))
    /\ calls' = Append(calls, Call("render", PngSize, <<>>, <<>>))
    /\ png_icon' = Render(PngSize, low[PngSize])
    /\ sizes' = DefaultSizes
    /\ pc' = "create_ico"
    /\ UNCHANGED <<low, rvars, caller, idx, images_data, disk, exc, exit_status>>

\* print("Creating PNG icon..."); png_icon = create_house_with_sound_icon(48)
MainRenderPng ==
    /\ pc = "main"
    /\ out' = Append(out, Line("Creating PNG icon...", <<>>))
    /\ calls' = Append(calls, Call("render", PngSize, <<>>, <<>>))
    /\ png_icon' = Render(PngSize, low[PngSize])
    /\ pc' = "save_png"
    /\ UNCHANGED <<low, rvars, caller, sizes, idx, images_data, disk, exc, exit_status>>

MainRenderPngFails ==
    /\ pc = "main"
    /\ out' = Append(out, Line("Creating PNG icon...", <<>>))
    /\ calls' = Append(calls, Call("render", PngSize, <<>>, <<>>))
    /\ exc' = "render_png"
    /\ pc' = "except"
    /\ UNCHANGED <<low, rvars, caller, sizes, idx, images_data, png_icon, disk, exit_status>>

\* png_icon.save(png_file, 'PNG'); print(...); create_ico(output_file) is
\* called with the default sizes.
MainSavePng ==
    /\ pc = "save_png"
    /\ calls' = Append(calls, Call("save_png", 0, <<png_icon>>, <<>>))
    /\ disk' = [disk EXCEPT ![png_file] = File("PNG", <<png_icon>>)]
    /\ out' = Append(out, Line("PNG icon created: src/app.png", <<>>))
    /\ sizes' = DefaultSizes
    /\ pc' = "create_ico"
    /\ UNCHANGED <<low, rvars, caller, idx, images_data, png_icon, exc, exit_status>>

MainSavePngFails ==
    /\ pc = "save_png"
    /\ calls' = Append(calls, Call("save_png", 0, <<png_icon>>, <<>>))
    /\ \E f \in AfterFailedWrite(disk[png_file]) :
           disk' = [disk EXCEPT ![png_file] = f]
    /\ exc' = "save_png"
    /\ pc' = "except"
    /\ UNCHANGED <<low, rvars, caller, sizes, idx, images_data, png_icon, out, exit_status>>

\* The three lines after create_ico returns; the script ends, status 0.
MainReport ==
    /\ pc = "report"
    /\ out' = out \o <<Line("Icon files created successfully!", <<>>),
                       Line("  - src/app.ico (multi-resolution ICO)", <<>>),
                       Line("  - src/app.png (48x48 PNG)", <<>>)>>
    /\ exit_status' = 0
    /\ pc' = "exit"
    /\ UNCHANGED <<low, rvars, caller, sizes, idx, images_data, png_icon, disk, calls, exc>>

\* Variant of HandlerStatus: the except clause ends with sys.exit(0).
HandlerStatusZero == 1 - 1

\* sys.exit(1) at the end of the except clause.
HandlerStatus == 1

\* Variant of Handler: the except clause also removes the output files.
HandlerCleansUp ==
    /\ pc = "except"
    /\ out' = out \o <<Line("Error creating icon: {e}", <<>>),
                       Line("Traceback (most recent call last): ...", <<>>)>>
    /\ disk' = [p \in DOMAIN disk |-> File("none", <<>>)]
    /\ exit_status' = HandlerStatus
    /\ pc' = "exit"
    /\ UNCHANGED <<low, rvars, caller, sizes, idx, images_data, png_icon, calls, exc>>

\* except Exception as e: the message, traceback.print_exc(), sys.exit(1)
Handler ==
    /\ pc = "except"
    /\ out' = out \o <<Line("Error creating icon: {e}", <<>>),
                       Line("Traceback (most recent call last): ...", <<>>)>>
    /\ exit_status' = HandlerStatus
    /\ pc' = "exit"
    /\ UNCHANGED <<low, rvars, caller, sizes, idx, images_data, png_icon, disk, calls, exc>>

\* Init is the process as the interpreter starts the script, the two output
\* paths each free or holding an older file.
Init ==
    /\ RendererIdle
    /\ low \in LowChoices(Range(DefaultSizes) \cup {PngSize})
    /\ pc = "import"
    /\ caller = "main"
    /\ sizes = <<>>
    /\ idx = 0
    /\ images_data = <<>>
    /\ png_icon = NoImage
    /\ disk \in [{png_file, output_file} -> {File("none", <<>>), File("stale", <<>>)}]
    /\ out = <<>>
    /\ calls = <<>>
    /\ exc = "none"
    /\ exit_status = -1

Next ==
    \/ ImportOk
    \/ ImportFails
    \/ MainRenderPng
    \/ MainRenderPngFails
    \/ MainSavePng
    \/ MainSavePngFails
    \/ IcoBegin
    \/ IcoRenderFrame
    \/ IcoRenderFrameFails
    \/ IcoSave
    \/ IcoSaveFails
    \/ MainReport
    \/ Handler

Spec == Init /\ [][Next]_vars

(* ------------------------- claims on the renderer ---------------------- *)

IsWindow(op) == op.kind = "rectangle" /\ op.fill = WindowFill

HasWindowGray(image) ==
    \E p \in Pixels(image) : GetPixel(image, p[1], p[2]) = WindowFill

\* size / 30 rounded to the nearest whole number, either way at a tie.
Rounded30(size) == {(2 * size + 30) \div 60, (2 * size + 29) \div 60}

\* C6 (as amended): the three arcs are stroked max(1, floor(size / 30))
\* pixels wide (the code truncates scale * 0.8, it does not round it), and
\* the window's outline is max(1, floor(w / 2)) pixels wide, w being the
\* arcs' width.
C6_StrokeWidthTruncated ==
    \A i \in DOMAIN img.ops :
        LET w == Max(1, rsize \div 30)
        IN  /\ img.ops[i].kind = "arc" => img.ops[i].width = w
            /\ IsWindow(img.ops[i]) => img.ops[i].width = Max(1, w \div 2)

\* C6 witness: a render of size 256 has returned with arcs 8 wide (the
\* rounded width would be 9) and a window outline 4 wide.
C6_Witness ==
    /\ returned
    /\ rsize = 256
    /\ img.ops[1].kind = "arc" /\ img.ops[1].width = 8
    /\ IsWindow(img.ops[6]) /\ img.ops[6].width = 4

\* C6 as stated: the arcs are stroked max(1, round(size / 30)) pixels wide.
C6_StrokeWidthRounded ==
    \A i \in DOMAIN img.ops :
        img.ops[i].kind = "arc" =>
            \E r \in Rounded30(rsize) : img.ops[i].width = Max(1, r)

\* C7: the returned image holds a pixel of the window's light gray exactly
\* when size >= 32.
C7_WindowGrayIffLarge ==
    returned => (HasWindowGray(img) <=> rsize >= 32)

\* C7 witness: the render of size 32, the smallest with a window, has
\* returned and pixel (13, 19), inside the window's outline, is light gray.
C7_Witness ==
    /\ returned
    /\ rsize = 32
    /\ GetPixel(img, 13, 19) = WindowFill
    /\ HasWindowGray(img)

\* The bounding box <<left, top, right, bottom>> of the coordinates of a
\* sequence of draw calls.
BBox(ops) ==
    LET xs == UNION {{ops[i].xy[j] : j \in {k \in DOMAIN ops[i].xy : k % 2 = 1}} : i \in DOMAIN ops}
        ys == UNION {{ops[i].xy[j] : j \in {k \in DOMAIN ops[i].xy : k % 2 = 0}} : i \in DOMAIN ops}
    IN  <<SetMin(xs), SetMin(ys), SetMax(xs), SetMax(ys)>>

\* The extent of the draw calls of size t, without the window (which lies
\* inside the body).
ShapeBox(t) == BBox(DrawCalls(t, {}))

\* C8 (as amended): the image is size x size, every coordinate drawn lies
\* inside it (in 0 .. size - 1), and the shapes' bounding box has each of its
\* edges, its width and its height non-decreasing in size: the box moves
\* away from the origin as it grows, it does not contain the smaller ones.
C8_InsideAndGrowing ==
    /\ img.width = rsize /\ img.height = rsize
    /\ \A i \in DOMAIN img.ops : \A j \in DOMAIN img.ops[i].xy :
           img.ops[i].xy[j] \in 0 .. rsize - 1
    /\ returned =>
           \A t \in {u \in RenderSizes : u <= rsize} :
               LET s == ShapeBox(t)
                   b == BBox(img.ops)
               IN  /\ \A k \in 1 .. 4 : s[k] <= b[k]
                   /\ s[3] - s[1] <= b[3] - b[1]
                   /\ s[4] - s[2] <= b[4] - b[2]

\* C8 witness: the render of size 48 has returned; its shapes span
\* (1, 2) to (38, 44), while those of size 24 span (0, 1) to (19, 22).
C8_Witness ==
    /\ returned
    /\ rsize = 48
    /\ BBox(img.ops) = <<1, 2, 38, 44>>
    /\ ShapeBox(24) = <<0, 1, 19, 22>>

\* C8 as stated: the bounding box of the shapes of any smaller size is
\* contained in that of the size rendered.
C8_BoxContainsSmaller ==
    returned =>
        \A t \in {u \in RenderSizes : u <= rsize} :
            LET s == ShapeBox(t)
                b == BBox(img.ops)
            IN  b[1] <= s[1] /\ b[2] <= s[2] /\ s[3] <= b[3] /\ s[4] <= b[4]

DrawOrder == <<"arc", "arc", "arc", "polygon", "rectangle", "rectangle">>

\* C9: the draws made so far are, in order, a prefix of three arcs, roof,
\* body, window, the window only when size >= 32 and always last; and once
\* the image is returned every pixel of the window's box holds the window's
\* own colour there (light gray inside, the foreground on its outline).
C9_WindowOnTop ==
    /\ \A i \in DOMAIN img.ops :
           /\ i <= Len(DrawOrder) /\ img.ops[i].kind = DrawOrder[i]
           /\ IsWindow(img.ops[i]) <=> (i = Len(DrawOrder) /\ rsize >= 32)
    /\ returned /\ rsize >= 32 => \E i \in DOMAIN img.ops : IsWindow(img.ops[i])
    /\ returned =>
           \A i \in DOMAIN img.ops :
               IsWindow(img.ops[i]) =>
                   \A x \in img.ops[i].xy[1] .. img.ops[i].xy[3] :
                       \A y \in img.ops[i].xy[2] .. img.ops[i].xy[4] :
                           GetPixel(img, x, y) = InkAt(img.ops[i], x, y)

\* C9 witness: the render of size 48 has returned with its six draws; the
\* window's corner (18, 28) holds the foreground outline and (20, 30) the
\* light-gray fill, both inside the body drawn before it.
C9_Witness ==
    /\ returned
    /\ rsize = 48
    /\ Len(img.ops) = 6
    /\ Covers(img.ops[5], 20, 30)
    /\ GetPixel(img, 18, 28) = color
    /\ GetPixel(img, 20, 30) = WindowFill

(* ------------------------- claims on the program ----------------------- *)

Texts(lines) == {lines[i].text : i \in DOMAIN lines}

Printed(text) == text \in Texts(out)

Signature(cs) == [i \in DOMAIN cs |-> <<cs[i].op, cs[i].size>>]

IsPrefix(s, t) == Len(s) <= Len(t) /\ \A i \in DOMAIN s : s[i] = t[i]

\* The calls of a run that meets no failure.
FullRun ==
    <<<<"render", 48>>, <<"save_png", 0>>, <<"render", 16>>, <<"render", 24>>,
      <<"render", 32>>, <<"render", 48>>, <<"render", 256>>, <<"save_ico", 0>>>>

Widths(images) == [i \in DOMAIN images |-> images[i].width]

\* C1: the calls of a run are, in order, a prefix of: render 48, write PNG,
\* render 16, 24, 32, 48, 256, write ICO.  Once an ICO frame is rendered the
\* PNG is on disk; the ICO write is handed every frame of the list; the
\* success report follows the whole sequence.
C1_FixedOrder ==
    /\ IsPrefix(Signature(calls), FullRun)
    /\ Len(calls) >= 3 => disk[png_file] = File("PNG", <<png_icon>>)
    /\ \A i \in DOMAIN calls :
           calls[i].op = "save_ico" => Widths(calls[i].images) = DefaultSizes
    /\ Printed("Icon files created successfully!") =>
           /\ Signature(calls) = FullRun
           /\ disk[output_file].kind = "ICO"

\* C1 witness: a run has ended with status 0 after all eight calls.
C1_Witness ==
    /\ pc = "exit"
    /\ exit_status = 0
    /\ Signature(calls) = FullRun
    /\ Printed("Icon files created successfully!")

\* C2 (as amended): every failure ends the process with exit status 1.  A
\* failure of a render or of a write reaches the top-level handler, whose
\* message and stack trace are the last two lines printed.  A failure to
\* load the drawing library (ImportError) does not: the import guard prints
\* its two lines, no stack trace, and exits.
C2_FailureExitsOne ==
    (pc = "exit" /\ exc # "none") =>
        /\ exit_status = 1
        /\ exc = "import" =>
               Texts(out) = {"Error: Pillow not installed.", "Please run: pip install pillow"}
        /\ exc # "import" =>
               /\ Len(out) >= 2
               /\ out[Len(out) - 1].text = "Error creating icon: {e}"
               /\ out[Len(out)].text = "Traceback (most recent call last): ..."

\* C2 witness: the ICO write failed and the handler has ended the process.
C2_Witness ==
    /\ pc = "exit"
    /\ exc = "save_ico"
    /\ exit_status = 1
    /\ Printed("Error creating icon: {e}")

\* C2 as stated: every failure, the library's load included, ends with the
\* handler's message and stack trace and exit status 1.
C2_EveryFailureTraced ==
    (pc = "exit" /\ exc # "none") =>
        /\ exit_status = 1
        /\ Printed("Error creating icon: {e}")
        /\ Printed("Traceback (most recent call last): ...")

\* C3: once the PNG is written, a failure of an ICO frame's render or of the
\* ICO write leaves src/app.png as it was written (the 48 x 48 image), up to
\* and including the exit with status 1.
C3_PngSurvivesLaterFailure ==
    exc \in {"render_frame", "save_ico"} =>
        /\ disk[png_file] = File("PNG", <<png_icon>>)
        /\ png_icon = Render(PngSize, low[PngSize])
        /\ pc = "exit" => exit_status = 1

\* C3 witness: the render of the third ICO frame failed, the process has
\* exited with status 1 and the PNG is on disk.
C3_Witness ==
    /\ pc = "exit"
    /\ exc = "render_frame"
    /\ Len(images_data) = 2
    /\ exit_status = 1
    /\ disk[png_file].kind = "PNG"

\* C4 as stated: a run that ends with status 0 leaves a PNG of one 48 x 48
\* frame and an ICO of exactly five frames, of sizes 16, 24, 32, 48 and 256,
\* and has printed the summary of the five sizes.
C4_FiveFrames ==
    (pc = "exit" /\ exit_status = 0) =>
        /\ disk[png_file].kind = "PNG"
        /\ Widths(disk[png_file].frames) = <<48>>
        /\ disk[output_file].kind = "ICO"
        /\ Len(disk[output_file].frames) = 5
        /\ Range(Widths(disk[output_file].frames)) = {16, 24, 32, 48, 256}
        /\ \A i \in DOMAIN disk[output_file].frames :
               disk[output_file].frames[i].width = disk[output_file].frames[i].height
        /\ \E i \in DOMAIN out :
               out[i].text = "Sizes included: {sizes}" /\ out[i].nums = DefaultSizes

\* C10: the success report is printed exactly when the process ends with
\* status 0; at the end of a run it is printed exactly when both files were
\* written in the run; a run that prints the error message never prints it.
C10_ReportIffBothWritten ==
    /\ Printed("Icon files created successfully!") <=> (pc = "exit" /\ exit_status = 0)
    /\ pc = "exit" =>
           (Printed("Icon files created successfully!")
               <=> (disk[png_file].kind = "PNG" /\ disk[output_file].kind = "ICO"))
    /\ exit_status = 1 => ~Printed("Icon files created successfully!")
    /\ ~(Printed("Error creating icon: {e}") /\ Printed("Icon files created successfully!"))

\* C10 witness: a run ended with status 0, both files written, the report
\* printed and no error message.
C10_Witness ==
    /\ pc = "exit"
    /\ exit_status = 0
    /\ disk[png_file].kind = "PNG"
    /\ disk[output_file].kind = "ICO"
    /\ Printed("Icon files created successfully!")
    /\ ~Printed("Error creating icon: {e}")

(* ------------------------- claims on create_ico ------------------------ *)

IsSave(c) == c.op = "save_ico"

====
